---- MODULE Spec2Model ----
(***************************************************************************)
(* ConnectionToCore (net/lib/ConnectionToCore.ts): the connect/disconnect  *)
(* lifecycle, request/response correlation and auto-reconnect policy of a  *)
(* client connection over an abstract transport.                           *)
(*                                                                         *)
(* The program runs on a single-threaded cooperative scheduler.  Every     *)
(* action below is one synchronous run of a handler, from its entry (a     *)
(* public call, a transport event, a hook or transport promise settling)   *)
(* to its next suspension on something external, followed by the promise   *)
(* continuations that this run made ready (RunContinuations).              *)
(***************************************************************************)
EXTENDS Integers, Sequences, FiniteSets, TLC

\* ---------------------------------------------------------------- bounds
\* lifecycle actions (connect attempts plus disconnects) an execution creates
MaxActions == 2
\* sendRequest invocations an execution makes
MaxRequests == 3
\* the clock stops at MaxTime, advancing TickMillis at a time
MaxTime == 1000
TickMillis == 1000

\* ------------------------------------------------------------- constants
DefaultMinimumAutoReconnectMillis == 1000
\* transport.host
Host == "core-host"

ActionIds == 1..MaxActions
CallIds == 1..MaxRequests

\* ---------------------------------------------------------------- values
\* A value carried by a promise: null/undefined, a response payload (ref names
\* the request the remote produced it for) or an Error.
Empty == [kind |-> "empty", name |-> "", host |-> "", ref |-> 0]
Data(i) == [Empty EXCEPT !.kind = "data", !.ref = i]
Err(n) == [Empty EXCEPT !.kind = "error", !.name = n]
DisconnectedError(h) == [Err("DisconnectedError") EXCEPT !.host = h]

\* error instanceof CanceledPromiseError; DisconnectedError is the
\* cancellation the registry sweeps are made with.
IsCanceledPromiseError(e) ==
    e.kind = "error" /\ e.name \in {"CanceledPromiseError", "DisconnectedError"}

isBrowserLaunchError(e) ==
    e.name = "BrowserLaunchError" \/ e.name = "DependenciesMissingError"

\* A promise: pending, resolved with a value or rejected with an error.
Pending == [status |-> "pending", value |-> Empty]
Resolved(v) == [status |-> "resolved", value |-> v]
Rejected(e) == [status |-> "rejected", value |-> e]

\* ----------------------------------------------------------------- state
VARIABLES
    autoReconnect,                \* this.autoReconnect
    connectAction,                \* this.connectAction: an action id, 0 for null
    disconnectAction,             \* this.disconnectAction: an action id, 0 for null
    didCallConnectionTerminated,  \* this.didCallConnectionTerminated
    lastDisconnectDate,           \* <<>> while undefined, <<t>> once recorded
    MinimumAutoReconnectMillis,   \* the static field: [isNaN, ms]
    actions,                      \* every IConnectAction created, by id
    pendingMessages,              \* the registry: [lastId, entries]
    calls,                        \* every sendRequest invocation
    teardowns,                    \* runs of the teardown body since transport.connect last completed
    now                           \* Date.now()

vars == <<autoReconnect, connectAction, disconnectAction, didCallConnectionTerminated,
          lastDisconnectDate, MinimumAutoReconnectMillis, actions, pendingMessages,
          calls, teardowns, now>>

\* An IConnectAction.  pc is where the connect()/disconnect() invocation that
\* created it is suspended, hookTarget the action its running hook was handed.
NoAction == [kind |-> "none", isAutomatic |-> FALSE, isCallingHook |-> FALSE,
             hookMessageId |-> 0, resolvable |-> Pending, pc |-> "unused",
             hookTarget |-> 0]

\* A sendRequest invocation: awaiting is the connect action it waits on,
\* promise the registry's future, send the promise of transport.send.
NoCall == [pc |-> "unused", awaiting |-> 0, id |-> 0,
           activeConnectHook |-> 0, activeDisconnectHook |-> 0,
           promise |-> Pending, send |-> Pending]

\* One thing a run of a handler hands to callers:
\*   op "sendRequest": invocation ref, which sent message id and was tagged
\*       with the hooks (activeConnectHook, activeDisconnectHook), settled
\*       with outcome;
\*   op "connect" / "disconnect": an invocation returned the promise outcome;
\*       it is resolvable.promise of action ref (0: of no action), and joined
\*       tells that the action existed before the call;
\*   op "settled": resolvable of action ref settled with outcome, which is
\*       what every holder of resolvable.promise observes.
Return(op, ref, outcome) ==
    [op |-> op, ref |-> ref, id |-> 0, hooks |-> <<0, 0>>, joined |-> FALSE,
     outcome |-> outcome]

\* The state as one record, so that a handler is a function from state to
\* state; returns collects what the handler hands to callers as it runs.
Cur == [autoReconnect |-> autoReconnect, connectAction |-> connectAction,
        disconnectAction |-> disconnectAction,
        didCallConnectionTerminated |-> didCallConnectionTerminated,
        lastDisconnectDate |-> lastDisconnectDate,
        MinimumAutoReconnectMillis |-> MinimumAutoReconnectMillis,
        actions |-> actions, pendingMessages |-> pendingMessages,
        calls |-> calls, teardowns |-> teardowns, now |-> now, returns |-> {}]

ActionIsReferenced(S, a) == a = S.connectAction \/ a = S.disconnectAction

\* The instance reads an action's fields only through this.connectAction and
\* this.disconnectAction.  On an action neither refers to, all that is left
\* is the invocation that created it: its fields are dead, and kept at their
\* initial values.
Normalise(S) ==
    [S EXCEPT
        !.actions = [a \in ActionIds |->
                        LET r == S.actions[a] IN
                        IF r.kind = "none" \/ ActionIsReferenced(S, a) THEN r
                        ELSE [NoAction EXCEPT !.kind = r.kind, !.pc = r.pc,
                                              !.hookTarget = r.hookTarget,
                                              !.resolvable =
                                                  IF r.pc = "done" THEN Pending
                                                  ELSE r.resolvable]]]

Assign(S) ==
    /\ autoReconnect' = S.autoReconnect
    /\ connectAction' = S.connectAction
    /\ disconnectAction' = S.disconnectAction
    /\ didCallConnectionTerminated' = S.didCallConnectionTerminated
    /\ lastDisconnectDate' = S.lastDisconnectDate
    /\ MinimumAutoReconnectMillis' = S.MinimumAutoReconnectMillis
    /\ actions' = S.actions
    /\ pendingMessages' = S.pendingMessages
    /\ calls' = S.calls
    /\ teardowns' = S.teardowns
    /\ now' = S.now

\* The state a handler leaves.
Set(S) == Assign(Normalise(S))

UsedActions(S) == {a \in ActionIds : S.actions[a].kind # "none"}
UsedCalls(S) == {c \in CallIds : S.calls[c].pc # "unused"}

\* ------------------------------------------------------- PendingMessages
PendingIds(S) == {e.id : e \in S.pendingMessages.entries}

CallOf(S, id) == CHOOSE c \in CallIds : S.calls[c].id = id

\* create(timeoutMs, bypassesConnectionCheck): a fresh id and a pending future
PMCreate(S, c, bypass) ==
    LET id == S.pendingMessages.lastId + 1 IN
    [S EXCEPT !.pendingMessages =
                  [lastId |-> id,
                   entries |-> @.entries \cup
                       {[id |-> id, bypassesConnectionCheck |-> bypass]}],
              !.calls[c].id = id,
              !.calls[c].promise = Pending]

\* settle the entry of id with outcome and remove it; nothing for an unknown id
PMSettle(S, id, outcome) ==
    IF id \in PendingIds(S)
    THEN [S EXCEPT !.pendingMessages.entries = {e \in @ : e.id # id},
                   !.calls[CallOf(S, id)].promise = outcome]
    ELSE S

PMResolve(S, id, data) == PMSettle(S, id, Resolved(data))

PMReject(S, id, error) == PMSettle(S, id, Rejected(error))

\* delete(id): remove without settling
PMDelete(S, id) ==
    [S EXCEPT !.pendingMessages.entries = {e \in @ : e.id # id}]

\* cancel(error): reject every pending entry, then clear the registry
PMCancel(S, error) ==
    LET ids == PendingIds(S) IN
    [S EXCEPT !.pendingMessages.entries = {},
              !.calls = [c \in CallIds |->
                            IF S.calls[c].id \in ids
                            THEN [S.calls[c] EXCEPT !.promise = Rejected(error)]
                            ELSE S.calls[c]]]

\* ------------------------------------------------------ ConnectionToCore
\* shouldAutoConnect requiring more than the minimum interval to have elapsed
shouldAutoConnectStrictlyLater(S) ==
    IF ~S.autoReconnect \/ S.connectAction # 0 THEN FALSE
    ELSE IF S.disconnectAction # 0 /\ S.actions[S.disconnectAction].hookMessageId # 0
    THEN FALSE
    ELSE IF S.lastDisconnectDate = <<>> THEN TRUE
    ELSE IF S.MinimumAutoReconnectMillis.isNaN THEN FALSE
    ELSE S.now - S.lastDisconnectDate[1] > S.MinimumAutoReconnectMillis.ms

\* shouldAutoConnect comparing without the Number.isNaN test
shouldAutoConnectIgnoresNaN(S) ==
    IF ~S.autoReconnect \/ S.connectAction # 0 THEN FALSE
    ELSE IF S.disconnectAction # 0 /\ S.actions[S.disconnectAction].hookMessageId # 0
    THEN FALSE
    ELSE IF S.lastDisconnectDate = <<>> THEN TRUE
    ELSE S.now - S.lastDisconnectDate[1] >= S.MinimumAutoReconnectMillis.ms

shouldAutoConnect(S) ==
    IF ~S.autoReconnect \/ S.connectAction # 0 THEN FALSE
    ELSE IF S.disconnectAction # 0 /\ S.actions[S.disconnectAction].hookMessageId # 0
    THEN FALSE
    ELSE IF S.lastDisconnectDate = <<>> THEN TRUE
    ELSE IF S.MinimumAutoReconnectMillis.isNaN THEN FALSE
    ELSE S.now - S.lastDisconnectDate[1] >= S.MinimumAutoReconnectMillis.ms

\* onResponse settling the oldest pending request, whatever the responseId
onResponseOldestPending(S, message) ==
    LET ids == PendingIds(S)
        id == IF ids = {} THEN message.responseId
              ELSE CHOOSE i \in ids : \A j \in ids : i <= j
        data == message.data
    IN  IF data.kind = "error"
        THEN PMReject(S, id, IF S.disconnectAction # 0 THEN DisconnectedError(Host) ELSE data)
        ELSE PMResolve(S, id, data)

\* onResponse replacing a launch error like any other error
onResponseMasksLaunchError(S, message) ==
    LET id == message.responseId
        data == message.data
    IN  IF data.kind = "error"
        THEN LET isDisconnected ==
                     \/ S.disconnectAction # 0
                     \/ data.name = "SessionClosedOrMissingError"
                     \/ message.isDisconnecting
             IN  PMReject(S, id, IF isDisconnected THEN DisconnectedError(Host) ELSE data)
        ELSE PMResolve(S, id, data)

\* onResponse(message), message = [responseId, data, isDisconnecting], the
\* last being the flag an error payload may carry
onResponse(S, message) ==
    LET id == message.responseId
        data == message.data
    IN  IF data.kind = "error"
        THEN LET isDisconnected ==
                     \/ S.disconnectAction # 0
                     \/ data.name = "SessionClosedOrMissingError"
                     \/ message.isDisconnecting
                 responseError ==
                     IF isDisconnected /\ ~isBrowserLaunchError(data)
                     THEN DisconnectedError(Host)
                     ELSE data
             IN  PMReject(S, id, responseError)
        ELSE PMResolve(S, id, data)

\* the teardown force-settling the connect action's hook request with a
\* DisconnectedError whether or not the connect was automatic
TerminatedBodyIgnoresAutomatic(S) ==
    LET S1 == [S EXCEPT !.lastDisconnectDate = <<S.now>>,
                        !.didCallConnectionTerminated = TRUE,
                        !.teardowns = @ + 1]
        ca == S1.connectAction
        S2 == IF ca # 0 /\ S1.actions[ca].hookMessageId # 0
              THEN onResponse(S1, [responseId |-> S1.actions[ca].hookMessageId,
                                   data |-> DisconnectedError(Host),
                                   isDisconnecting |-> FALSE])
              ELSE S1
        S3 == [S2 EXCEPT !.connectAction = 0]
        da == S3.disconnectAction
        S4 == IF da # 0 /\ S3.actions[da].hookMessageId # 0
              THEN onResponse(S3, [responseId |-> S3.actions[da].hookMessageId,
                                   data |-> Empty, isDisconnecting |-> FALSE])
              ELSE S3
    IN  PMCancel(S4, DisconnectedError(Host))

\* The body of onConnectionTerminated: it emits 'disconnected', settles the
\* hook requests, cancels the rest and calls hooks.afterDisconnectHook.
TerminatedBody(S) ==
    LET S1 == [S EXCEPT !.lastDisconnectDate = <<S.now>>,
                        !.didCallConnectionTerminated = TRUE,
                        !.teardowns = @ + 1]
        ca == S1.connectAction
        S2 == IF ca # 0 /\ S1.actions[ca].hookMessageId # 0
              THEN onResponse(S1, [responseId |-> S1.actions[ca].hookMessageId,
                                   data |-> IF ~S1.actions[ca].isAutomatic
                                            THEN DisconnectedError(Host)
                                            ELSE Empty,
                                   isDisconnecting |-> FALSE])
              ELSE S1
        S3 == [S2 EXCEPT !.connectAction = 0]
        da == S3.disconnectAction
        S4 == IF da # 0 /\ S3.actions[da].hookMessageId # 0
              THEN onResponse(S3, [responseId |-> S3.actions[da].hookMessageId,
                                   data |-> Empty, isDisconnecting |-> FALSE])
              ELSE S3
    IN  PMCancel(S4, DisconnectedError(Host))

\* onConnectionTerminated without its didCallConnectionTerminated guard
TerminatedRunsAlways(S) == TRUE

\* onConnectionTerminated passing its guard whenever a disconnect action is
\* present
TerminatedRunsWhenDisconnecting(S) ==
    ~S.didCallConnectionTerminated \/ S.disconnectAction # 0

\* Whether a call of onConnectionTerminated gets past its guard.
TerminatedRuns(S) == ~S.didCallConnectionTerminated

onConnectionTerminated(S) == IF TerminatedRuns(S) THEN TerminatedBody(S) ELSE S

\* The finally block of sendRequest, after which the invocation has settled
\* with outcome.
SendFinally(S, c, outcome) ==
    LET call == S.calls[c]
        ach == call.activeConnectHook
        adh == call.activeDisconnectHook
        S1 == [S EXCEPT !.calls[c] = [NoCall EXCEPT !.pc = "done"],
                        !.returns = @ \cup
                            {[Return("sendRequest", c, outcome)
                                 EXCEPT !.id = call.id, !.hooks = <<ach, adh>>]}]
        S2 == IF ach # 0 THEN [S1 EXCEPT !.actions[ach].hookMessageId = 0] ELSE S1
    IN  IF adh # 0 THEN [S2 EXCEPT !.actions[adh].hookMessageId = 0] ELSE S2

\* sendRequest from pendingMessages.create to the await of Promise.all.
SendBody(S, c) ==
    LET call == S.calls[c]
        ach == call.activeConnectHook
        adh == call.activeDisconnectHook
        S1 == PMCreate(S, c, ach # 0 \/ adh # 0)
        id == S1.calls[c].id
        S2 == IF ach # 0 THEN [S1 EXCEPT !.actions[ach].hookMessageId = id] ELSE S1
        S3 == IF adh # 0 THEN [S2 EXCEPT !.actions[adh].hookMessageId = id] ELSE S2
    IN  [S3 EXCEPT !.calls[c].pc = "awaitResponse", !.calls[c].awaiting = 0,
                   !.calls[c].send = Pending]

\* the catch block of sendRequest swallowing a cancellation whether or not a
\* disconnect is in progress
SendCatchSwallowsCancel(S, c, error) ==
    LET S1 == PMDelete(S, S.calls[c].id) IN
    IF IsCanceledPromiseError(error)
    THEN SendFinally(S1, c, Resolved(Empty))
    ELSE SendFinally(S1, c, Rejected(error))

\* the catch block of sendRequest without pendingMessages.delete(id)
SendCatchKeepsEntry(S, c, error) ==
    IF S.disconnectAction # 0 /\ IsCanceledPromiseError(error)
    THEN SendFinally(S, c, Resolved(Empty))
    ELSE SendFinally(S, c, Rejected(error))

\* the catch block of sendRequest swallowing every error while a disconnect
\* action is present
SendCatchSwallowsAnyError(S, c, error) ==
    LET S1 == PMDelete(S, S.calls[c].id) IN
    IF S1.disconnectAction # 0
    THEN SendFinally(S1, c, Resolved(Empty))
    ELSE SendFinally(S1, c, Rejected(error))

\* The catch block of sendRequest.
SendCatch(S, c, error) ==
    LET S1 == PMDelete(S, S.calls[c].id) IN
    IF S1.disconnectAction # 0 /\ IsCanceledPromiseError(error)
    THEN SendFinally(S1, c, Resolved(Empty))
    ELSE SendFinally(S1, c, Rejected(error))

\* Resume invocation c of sendRequest if what it awaits has settled.  A
\* rejected connect leaves sendRequest before its try block; an invocation
\* that awaited connect carries no hook tag, so SendFinally clears nothing.
ContinueCall(S, c) ==
    LET call == S.calls[c] IN
    IF call.pc = "awaitConnect"
    THEN LET r == S.actions[call.awaiting].resolvable IN
         IF r.status = "rejected" THEN SendFinally(S, c, Rejected(r.value))
         ELSE IF r.status = "resolved" THEN SendBody(S, c)
         ELSE S
    ELSE IF call.pc = "awaitResponse"
    THEN IF call.promise.status = "rejected" THEN SendCatch(S, c, call.promise.value)
         ELSE IF call.send.status = "rejected" THEN SendCatch(S, c, call.send.value)
         ELSE IF call.promise.status = "resolved" /\ call.send.status = "resolved"
         THEN SendFinally(S, c, Resolved(call.promise.value))
         ELSE S
    ELSE S

RECURSIVE RunFrom(_, _)
RunFrom(S, c) == IF c > MaxRequests THEN S ELSE RunFrom(ContinueCall(S, c), c + 1)

\* The promise continuations a handler has made ready, in registration order.
RunContinuations(S) == RunFrom(S, 1)

\* connect() without its test of disconnectAction.isCallingHook
DisconnectHookIgnored(S) == FALSE

\* Whether connect() returns at once because a disconnect hook is executing.
DisconnectHookRunning(S) ==
    S.disconnectAction # 0 /\ S.actions[S.disconnectAction].isCallingHook

\* connect() joining only a connect action that has already settled
JoinsConnectOnlySettled(S) ==
    S.connectAction # 0 /\ S.actions[S.connectAction].resolvable.status # "pending"

\* Whether connect() hands back the promise of the live connect action.
JoinsConnect(S) == S.connectAction # 0

NewActionId(S) == Cardinality(UsedActions(S)) + 1

\* connect(options) up to the await of transport.connect, which it calls when
\* it creates an action.  ret is the action whose resolvable.promise the
\* invocation returns, 0 when it returns undefined at once.
connectSync(S, isAutoConnect, shouldAutoReconnect) ==
    IF DisconnectHookRunning(S) THEN [S |-> S, ret |-> 0]
    ELSE IF JoinsConnect(S) THEN [S |-> S, ret |-> S.connectAction]
    ELSE LET a == NewActionId(S)
             S1 == IF shouldAutoReconnect # "undefined"
                   THEN [S EXCEPT !.autoReconnect = (shouldAutoReconnect = "true")]
                   ELSE S
         IN  [S |-> [S1 EXCEPT !.actions[a] =
                                   [NoAction EXCEPT !.kind = "connect",
                                                    !.isAutomatic = isAutoConnect,
                                                    !.pc = "transportConnect"],
                               !.disconnectAction = 0,
                               !.connectAction = a],
              ret |-> a]

\* connect(options) as a caller sees it
connect(S, shouldAutoReconnect) ==
    LET R == connectSync(S, FALSE, shouldAutoReconnect) IN
    [R.S EXCEPT !.returns = @ \cup
        {[Return("connect", R.ret,
                 IF R.ret = 0 THEN Resolved(Empty) ELSE S.actions[R.ret].resolvable)
             EXCEPT !.joined = (R.ret # 0 /\ R.ret = S.connectAction)]}]

\* resolvable of action a settles
SettleAction(S, a, outcome) ==
    IF S.actions[a].resolvable.status = "pending"
    THEN [S EXCEPT !.actions[a].resolvable = outcome,
                   !.returns = @ \cup {Return("settled", a, outcome)}]
    ELSE S

\* connect(): resolvable.resolve() and emit('connected')
ConnectResolve(S, a) ==
    [SettleAction(S, a, Resolved(Empty)) EXCEPT !.actions[a].pc = "done"]

\* connect(): the catch block
ConnectCatch(S, a, err) ==
    [SettleAction([S EXCEPT !.connectAction = 0], a, Rejected(err))
        EXCEPT !.actions[a].pc = "done"]

\* afterConnectHook without its test of this.disconnectAction
SkipsAfterConnectHookIgnoresDisconnect(S) ==
    \/ S.connectAction = 0
    \/ S.actions[S.connectAction].resolvable.status # "pending"

\* Whether afterConnectHook returns without calling hooks.afterConnectFn.
SkipsAfterConnectHook(S) ==
    \/ S.disconnectAction # 0
    \/ S.connectAction = 0
    \/ S.actions[S.connectAction].resolvable.status # "pending"

\* connect() of action a once transport.connect has resolved.
ConnectContinue(S, a) ==
    LET S1 == [S EXCEPT !.didCallConnectionTerminated = FALSE, !.teardowns = 0]
        ca == S1.connectAction
    IN  IF SkipsAfterConnectHook(S1) THEN ConnectResolve(S1, a)
        ELSE [S1 EXCEPT !.actions[ca].isCallingHook = TRUE,
                        !.actions[a].pc = "afterConnectHook",
                        !.actions[a].hookTarget = ca]

\* afterConnectHook's finally block
AfterConnectHookFinally(S, a) ==
    [S EXCEPT !.actions[S.actions[a].hookTarget].isCallingHook = FALSE,
              !.actions[a].hookTarget = 0]

\* disconnect() resolving its action at the end of the try block instead of
\* in a finally block
DisconnectResolveInTry(S, d, outcome) ==
    LET S1 == IF outcome.status = "rejected" THEN S
              ELSE SettleAction(S, d, Resolved(Empty))
    IN  [S1 EXCEPT !.actions[d].pc = "done",
                   !.returns = @ \cup {Return("disconnect", d, outcome)}]

\* disconnect(): the finally block; outcome is how the invocation settles
DisconnectFinally(S, d, outcome) ==
    LET S1 == [SettleAction(S, d, Resolved(Empty)) EXCEPT !.actions[d].pc = "done"]
    IN  [S1 EXCEPT !.returns = @ \cup {Return("disconnect", d, outcome)}]

\* disconnect() after the await of onConnectionTerminated
DisconnectAfterTerminated(S, d) ==
    DisconnectFinally([S EXCEPT !.connectAction = 0], d, Resolved(Empty))

\* disconnect() leaving autoReconnect as it is
disconnectSyncKeepsAutoReconnect(S) ==
    LET da == S.disconnectAction
    IN  IF da # 0
        THEN [S EXCEPT !.returns = @ \cup
                 {[Return("disconnect", da, S.actions[da].resolvable)
                      EXCEPT !.joined = TRUE]}]
        ELSE LET d == NewActionId(S)
                 S2 == [S EXCEPT !.actions[d] =
                                     [NoAction EXCEPT !.kind = "disconnect"],
                                 !.disconnectAction = d]
                 S3 == PMCancel(S2, DisconnectedError(Host))
             IN  [S3 EXCEPT !.actions[d].isCallingHook = TRUE,
                            !.actions[d].pc = "beforeDisconnectHook",
                            !.actions[d].hookTarget = d]

\* disconnect(fatalError) up to the await of the before-disconnect hook
disconnectSync(S) ==
    LET S1 == [S EXCEPT !.autoReconnect = FALSE]
        da == S1.disconnectAction
    IN  IF da # 0
        THEN [S1 EXCEPT !.returns = @ \cup
                 {[Return("disconnect", da, S1.actions[da].resolvable)
                      EXCEPT !.joined = TRUE]}]
        ELSE LET d == NewActionId(S1)
                 S2 == [S1 EXCEPT !.actions[d] =
                                      [NoAction EXCEPT !.kind = "disconnect"],
                                  !.disconnectAction = d]
                 S3 == PMCancel(S2, DisconnectedError(Host))
             IN  [S3 EXCEPT !.actions[d].isCallingHook = TRUE,
                            !.actions[d].pc = "beforeDisconnectHook",
                            !.actions[d].hookTarget = d]

\* disconnect() of action d once the before-disconnect hook has settled:
\* transport.disconnect() and the call of onConnectionTerminated
DisconnectContinue(S, d, transportThrows) ==
    LET S1 == [S EXCEPT !.actions[S.actions[d].hookTarget].isCallingHook = FALSE,
                        !.actions[d].hookTarget = 0]
    IN  IF transportThrows
        THEN DisconnectFinally(S1, d, Rejected(Err("TransportError")))
        ELSE IF TerminatedRuns(S1)
        THEN [TerminatedBody(S1) EXCEPT !.actions[d].pc = "afterDisconnectHook"]
        ELSE DisconnectAfterTerminated(S1, d)

\* Whether the body of a lifecycle hook is executing.
HookBodyRunning(S) ==
    \E a \in ActionIds : S.actions[a].pc \in {"afterConnectHook", "beforeDisconnectHook"}

\* sendRequest up to its first await, as invocation c.
sendRequestSync(S, c) ==
    LET ca == S.connectAction
        da == S.disconnectAction
        activeConnectHook == IF ca # 0 /\ S.actions[ca].isCallingHook THEN ca ELSE 0
        activeDisconnectHook == IF da # 0 /\ S.actions[da].isCallingHook THEN da ELSE 0
        S1 == [S EXCEPT !.calls[c] =
                            [NoCall EXCEPT !.activeConnectHook = activeConnectHook,
                                           !.activeDisconnectHook = activeDisconnectHook]]
    IN  IF shouldAutoConnect(S1)
        THEN LET R == connectSync(S1, TRUE, "undefined") IN
             IF R.ret = 0 THEN SendBody(R.S, c)
             ELSE [R.S EXCEPT !.calls[c].pc = "awaitConnect",
                              !.calls[c].awaiting = R.ret]
        ELSE SendBody(S1, c)

\* ---------------------------------------------------------------- inputs
AutoReconnectOptions == {"undefined", "true", "false"}

\* error names the remote answers with
RemoteErrorNames ==
    {"Error", "SessionClosedOrMissingError", "BrowserLaunchError", "DependenciesMissingError"}

\* what the remote can answer a request id with: the payload it produced for
\* that request, or an error, which may be flagged isDisconnecting
Responses(id) ==
    {[responseId |-> id, data |-> Data(id), isDisconnecting |-> FALSE]}
    \cup {[responseId |-> id, data |-> Err(n), isDisconnecting |-> FALSE] :
             n \in RemoteErrorNames}
    \cup {[responseId |-> id, data |-> Err("Error"), isDisconnecting |-> TRUE]}

\* errors transport.send fails with
SendErrors == {Err("SendError"), Err("CanceledPromiseError")}

\* ------------------------------------------------------------------ Init
InitWith(reconnectMillis) ==
    /\ autoReconnect = TRUE
    /\ connectAction = 0
    /\ disconnectAction = 0
    /\ didCallConnectionTerminated = FALSE
    /\ lastDisconnectDate = <<>>
    /\ MinimumAutoReconnectMillis = reconnectMillis
    /\ actions = [a \in ActionIds |-> NoAction]
    /\ pendingMessages = [lastId |-> 0, entries |-> {}]
    /\ calls = [c \in CallIds |-> NoCall]
    /\ teardowns = 0
    /\ now = 0

Init == InitWith([isNaN |-> FALSE, ms |-> DefaultMinimumAutoReconnectMillis])

\* --------------------------------------------------------------- actions
\* Each handler's run as a function of the current state (its Result), and
\* the action that takes it.

\* A caller invokes connect({shouldAutoReconnect}).
ConnectResult(shouldAutoReconnect) == connect(Cur, shouldAutoReconnect)

Connect(shouldAutoReconnect) ==
    /\ \/ DisconnectHookRunning(Cur)
       \/ JoinsConnect(Cur)
       \/ Cardinality(UsedActions(Cur)) < MaxActions
    /\ Set(ConnectResult(shouldAutoReconnect))

\* transport.connect of attempt a resolves.
TransportConnectResolvedResult(a) == RunContinuations(ConnectContinue(Cur, a))

TransportConnectResolved(a) ==
    /\ actions[a].pc = "transportConnect"
    /\ Set(TransportConnectResolvedResult(a))

\* transport.connect of attempt a rejects.
TransportConnectRejectedResult(a) ==
    RunContinuations(ConnectCatch(Cur, a, Err("ConnectError")))

TransportConnectRejected(a) ==
    /\ actions[a].pc = "transportConnect"
    /\ Set(TransportConnectRejectedResult(a))

\* hooks.afterConnectFn, called by attempt a, returns.
AfterConnectHookReturnResult(a) ==
    RunContinuations(ConnectResolve(AfterConnectHookFinally(Cur, a), a))

AfterConnectHookReturn(a) ==
    /\ actions[a].pc = "afterConnectHook"
    /\ Set(AfterConnectHookReturnResult(a))

\* hooks.afterConnectFn, called by attempt a, throws.
AfterConnectHookThrowResult(a) ==
    RunContinuations(ConnectCatch(AfterConnectHookFinally(Cur, a), a, Err("HookError")))

AfterConnectHookThrow(a) ==
    /\ actions[a].pc = "afterConnectHook"
    /\ Set(AfterConnectHookThrowResult(a))

\* A caller invokes disconnect().
DisconnectResult == RunContinuations(disconnectSync(Cur))

Disconnect ==
    /\ \/ disconnectAction # 0
       \/ Cardinality(UsedActions(Cur)) < MaxActions
    /\ Set(DisconnectResult)

\* hooks.beforeDisconnectFn of disconnect d returns or throws (the same to
\* disconnect(), which logs the error); transport.disconnect() returns or throws.
BeforeDisconnectHookSettledResult(d, transportThrows) ==
    RunContinuations(DisconnectContinue(Cur, d, transportThrows))

BeforeDisconnectHookSettled(d, transportThrows) ==
    /\ actions[d].pc = "beforeDisconnectHook"
    /\ Set(BeforeDisconnectHookSettledResult(d, transportThrows))

\* hooks.afterDisconnectHook, awaited by disconnect d, returns.
AfterDisconnectHookReturnResult(d) ==
    RunContinuations(DisconnectAfterTerminated(Cur, d))

AfterDisconnectHookReturn(d) ==
    /\ actions[d].pc = "afterDisconnectHook"
    /\ Set(AfterDisconnectHookReturnResult(d))

\* hooks.afterDisconnectHook, awaited by disconnect d, throws.
AfterDisconnectHookThrowResult(d) ==
    RunContinuations(DisconnectFinally(Cur, d, Rejected(Err("AfterDisconnectHookError"))))

AfterDisconnectHookThrow(d) ==
    /\ actions[d].pc = "afterDisconnectHook"
    /\ Set(AfterDisconnectHookThrowResult(d))

\* The transport emits 'disconnected'.
TransportDisconnectedResult == RunContinuations(onConnectionTerminated(Cur))

TransportDisconnected ==
    Set(TransportDisconnectedResult)

\* A caller ("user") or the body of an executing hook ("hook") invokes
\* sendRequest: the program has nothing to tell the two apart by.
NextCall == Cardinality(UsedCalls(Cur)) + 1

SendRequestResult == sendRequestSync(Cur, NextCall)

SendRequestEnabled ==
    /\ NextCall <= MaxRequests
    /\ (shouldAutoConnect(Cur) /\ ~DisconnectHookRunning(Cur))
           => Cardinality(UsedActions(Cur)) < MaxActions

SendRequest(issuer) ==
    /\ SendRequestEnabled
    /\ issuer = "hook" => HookBodyRunning(Cur)
    /\ Set(SendRequestResult)

\* The transport emits 'message' with a response.
TransportResponseResult(message) == RunContinuations(onResponse(Cur, message))

TransportResponse(message) ==
    Set(TransportResponseResult(message))

\* The transport emits 'message' with an event, which onEvent re-emits.
TransportEvent ==
    Set(Cur)

\* transport.send of invocation c resolves.
TransportSendResolvedResult(c) ==
    RunContinuations([Cur EXCEPT !.calls[c].send = Resolved(Empty)])

SendPending(c) == calls[c].pc = "awaitResponse" /\ calls[c].send.status = "pending"

TransportSendResolved(c) ==
    /\ SendPending(c)
    /\ Set(TransportSendResolvedResult(c))

\* transport.send of invocation c rejects.
TransportSendRejectedResult(c, error) ==
    RunContinuations([Cur EXCEPT !.calls[c].send = Rejected(error)])

TransportSendRejected(c, error) ==
    /\ SendPending(c)
    /\ Set(TransportSendRejectedResult(c, error))

\* Time passes.  The program reads the clock only to compare it with
\* lastDisconnectDate, so the clock stands still until there is one.
Tick ==
    /\ lastDisconnectDate # <<>>
    /\ now + TickMillis <= MaxTime
    /\ Set([Cur EXCEPT !.now = @ + TickMillis])

Next ==
    \/ \E o \in AutoReconnectOptions : Connect(o)
    \/ \E a \in ActionIds : TransportConnectResolved(a)
    \/ \E a \in ActionIds : TransportConnectRejected(a)
    \/ \E a \in ActionIds : AfterConnectHookReturn(a)
    \/ \E a \in ActionIds : AfterConnectHookThrow(a)
    \/ Disconnect
    \/ \E d \in ActionIds, t \in BOOLEAN : BeforeDisconnectHookSettled(d, t)
    \/ \E d \in ActionIds : AfterDisconnectHookReturn(d)
    \/ \E d \in ActionIds : AfterDisconnectHookThrow(d)
    \/ TransportDisconnected
    \/ \E i \in {"user", "hook"} : SendRequest(i)
    \/ \E id \in CallIds : \E m \in Responses(id) : TransportResponse(m)
    \/ TransportEvent
    \/ \E c \in CallIds : TransportSendResolved(c)
    \/ \E c \in CallIds, e \in SendErrors : TransportSendRejected(c, e)
    \/ Tick

Spec == Init /\ [][Next]_vars

\* ------------------------------------------------------- derived notions
\* Connected: connectAction resolved, disconnectAction null.
Connected ==
    /\ connectAction # 0
    /\ actions[connectAction].resolvable.status = "resolved"
    /\ disconnectAction = 0

\* A connect attempt is in flight: connectAction present, not yet settled.
Connecting ==
    /\ connectAction # 0
    /\ actions[connectAction].resolvable.status = "pending"

ConnectActions(S) == {a \in ActionIds : S.actions[a].kind = "connect"}

\* the invocations of sendRequest whose request is in the registry
PendingCalls ==
    {c \in CallIds : calls[c].pc = "awaitResponse" /\ calls[c].id \in PendingIds(Cur)}

\* what a run of a handler handed to invocation c of sendRequest
SendReturns(R, c) == {r \in R.returns : r.op = "sendRequest" /\ r.ref = c}

\* ------------------------------------------------------------ properties

\* C1: while a connect attempt is in flight (connectAction present and not
\* yet settled) and no disconnect() has intervened (no disconnect hook is
\* executing), a further connect() call, whatever its options, calls
\* transport.connect no second time: it creates no action, changes nothing
\* of the instance, and returns the promise of the attempt in flight, so
\* that every caller holds the one promise and observes its one outcome.
C1_ConcurrentConnectShares ==
    (Connecting /\ ~DisconnectHookRunning(Cur)) =>
        \A o \in AutoReconnectOptions :
            LET R == ConnectResult(o) IN
            /\ R.returns = {[Return("connect", connectAction, Pending)
                                EXCEPT !.joined = TRUE]}
            /\ [R EXCEPT !.returns = {}] = Cur

\* an attempt awaiting transport.connect with a sendRequest waiting on it,
\* when a connect() call comes
C1_Witness ==
    /\ Connecting
    /\ ~DisconnectHookRunning(Cur)
    /\ actions[connectAction].pc = "transportConnect"
    /\ \E c \in CallIds : calls[c].pc = "awaitConnect" /\ calls[c].awaiting = connectAction

\* the response carrying the payload the remote produced for request id
DataResponse(id) == [responseId |-> id, data |-> Data(id), isDisconnecting |-> FALSE]

\* C2: each sendRequest resolves with exactly the payload of the response
\* whose responseId equals its messageId, in whatever order the responses
\* arrive.  In every reachable state: a payload held by an invocation's
\* future is the one addressed to that invocation's id; and the response to
\* any pending id settles that id's invocation with its payload (returning
\* it at once if transport.send has resolved, as soon as it resolves
\* otherwise) and leaves every other invocation as it was.
C2_ResponseCorrelation ==
    /\ \A c \in CallIds :
           (calls[c].pc = "awaitResponse" /\ calls[c].promise.status = "resolved"
                /\ calls[c].promise.value.kind = "data")
               => calls[c].promise.value = Data(calls[c].id)
    /\ \A id \in PendingIds(Cur) :
           LET R == TransportResponseResult(DataResponse(id))
               c == CallOf(Cur, id)
               ret == [Return("sendRequest", c, Resolved(Data(id)))
                          EXCEPT !.id = id,
                                 !.hooks = <<calls[c].activeConnectHook,
                                             calls[c].activeDisconnectHook>>]
           IN  /\ calls[c].send.status = "resolved" => R.returns = {ret}
               /\ calls[c].send.status = "pending" =>
                      /\ R.returns = {}
                      /\ R.calls[c] = [calls[c] EXCEPT !.promise = Resolved(Data(id))]
               /\ \A o \in CallIds \ {c} : R.calls[o] = calls[o]
    /\ \A c \in CallIds :
           (SendPending(c) /\ calls[c].promise.status = "resolved") =>
               \A r \in TransportSendResolvedResult(c).returns :
                   r.op = "sendRequest" /\ r.ref = c
                       /\ r.outcome = Resolved(calls[c].promise.value)

\* connected, requests 1 and 2 both outstanding, and the response to 2
\* arrives first: 2's invocation returns while 1's still waits
C2_Witness ==
    /\ Connected
    /\ PendingIds(Cur) = {1, 2}
    /\ \A c \in PendingCalls : calls[c].send.status = "resolved"
    /\ LET R == TransportResponseResult(DataResponse(2)) IN
       /\ \E r \in SendReturns(R, CallOf(Cur, 2)) : r.outcome = Resolved(Data(2))
       /\ R.calls[CallOf(Cur, 1)].pc = "awaitResponse"
       /\ PendingIds(R) = {1}

\* ------------------------------------------- disconnecting once connected
\* An instance that a first connect() connects, and from then on disconnect()
\* calls, the transport's 'disconnected' notifications and requests, with
\* transport.disconnect() returning normally and no further connect.
HasConnected == \E a \in ActionIds : actions[a].kind = "connect" /\ actions[a].pc = "done"

NextDisconnect ==
    \/ UsedActions(Cur) = {} /\ \E o \in AutoReconnectOptions : Connect(o)
    \/ \E a \in ActionIds : TransportConnectResolved(a)
    \/ \E a \in ActionIds : AfterConnectHookReturn(a)
    \/ HasConnected /\ Disconnect
    \/ \E d \in ActionIds : BeforeDisconnectHookSettled(d, FALSE)
    \/ \E d \in ActionIds : AfterDisconnectHookReturn(d)
    \/ \E d \in ActionIds : AfterDisconnectHookThrow(d)
    \/ HasConnected /\ TransportDisconnected
    \/ (Connected \/ disconnectAction # 0) /\ SendRequest("user")
    \/ HookBodyRunning(Cur) /\ disconnectAction # 0 /\ SendRequest("hook")
    \/ \E id \in CallIds : \E m \in Responses(id) : TransportResponse(m)
    \/ \E c \in CallIds : TransportSendResolved(c)
    \/ \E c \in CallIds, e \in SendErrors : TransportSendRejected(c, e)
    \/ Tick

SpecDisconnect == Init /\ [][NextDisconnect]_vars

DisconnectActions == {d \in ActionIds : actions[d].kind = "disconnect"}

\* disconnect() invocations that have got to their call of transport.disconnect
TransportDisconnectCalls ==
    Cardinality({d \in DisconnectActions :
                    actions[d].pc \in {"afterDisconnectHook", "done"}})

DisconnectSettlements(R, d) ==
    {r \in R.returns : r.op \in {"disconnect", "settled"} /\ r.ref = d}

DisconnectOutcomes ==
    /\ \A d \in DisconnectActions : actions[d].resolvable.status # "rejected"
    /\ disconnectAction # 0 =>
           \A r \in DisconnectResult.returns :
               r.op = "disconnect" /\ r.joined /\ r.outcome.status # "rejected"
    /\ \A d \in DisconnectActions :
           /\ actions[d].pc = "beforeDisconnectHook" =>
                  /\ DisconnectSettlements(BeforeDisconnectHookSettledResult(d, TRUE), d)
                         = {Return("disconnect", d, Rejected(Err("TransportError"))),
                            Return("settled", d, Resolved(Empty))}
                  /\ DisconnectSettlements(BeforeDisconnectHookSettledResult(d, FALSE), d)
                         = IF TerminatedRuns(Cur) THEN {}
                           ELSE {Return("disconnect", d, Resolved(Empty)),
                                 Return("settled", d, Resolved(Empty))}
           /\ actions[d].pc = "afterDisconnectHook" =>
                  /\ DisconnectSettlements(AfterDisconnectHookReturnResult(d), d)
                         = {Return("disconnect", d, Resolved(Empty)),
                            Return("settled", d, Resolved(Empty))}
                  /\ DisconnectSettlements(AfterDisconnectHookThrowResult(d), d)
                         = {Return("disconnect", d, Rejected(Err("AfterDisconnectHookError"))),
                            Return("settled", d, Resolved(Empty))}

\* how far a disconnect() invocation is from its end
DisconnectRank(r) ==
    CASE r.pc = "beforeDisconnectHook" -> 2
      [] r.pc = "afterDisconnectHook" -> 1
      [] OTHER -> 0

\* each thing disconnect() waits for, once it returns or throws, takes the
\* invocation further
DisconnectAdvances ==
    \A d \in DisconnectActions :
        /\ actions[d].pc = "beforeDisconnectHook" =>
               \A t \in BOOLEAN :
                   DisconnectRank(BeforeDisconnectHookSettledResult(d, t).actions[d]) < 2
        /\ actions[d].pc = "afterDisconnectHook" =>
               /\ DisconnectRank(AfterDisconnectHookReturnResult(d).actions[d]) = 0
               /\ DisconnectRank(AfterDisconnectHookThrowResult(d).actions[d]) = 0
        /\ actions[d].pc \in {"beforeDisconnectHook", "afterDisconnectHook", "done"}

\* and nothing takes it back
DisconnectNeverRegresses ==
    \A d \in DisconnectActions :
        /\ actions'[d].kind = "disconnect"
        /\ DisconnectRank(actions'[d]) <= DisconnectRank(actions[d])

NonHookPendingCalls ==
    {c \in PendingCalls : calls[c].activeConnectHook = 0 /\ calls[c].activeDisconnectHook = 0}

\* C5: when the transport emits 'disconnected' while the instance is
\* connected (connectAction resolved, no disconnect action), the teardown
\* runs, every pending non-hook sendRequest rejects with
\* DisconnectedError(transport.host), and the registry is left empty.
C5_TerminationRejectsPending ==
    Connected =>
        LET R == TransportDisconnectedResult IN
        /\ R.teardowns = teardowns + 1
        /\ R.pendingMessages.entries = {}
        /\ \A c \in NonHookPendingCalls :
               SendReturns(R, c) =
                   {[Return("sendRequest", c, Rejected(DisconnectedError(Host)))
                        EXCEPT !.id = calls[c].id]}

\* connected with three non-hook requests pending, when the transport emits
\* 'disconnected'
C5_Witness ==
    /\ Connected
    /\ Cardinality(NonHookPendingCalls) = 3
    /\ \E c \in NonHookPendingCalls : calls[c].send.status = "pending"
    /\ \E c \in NonHookPendingCalls : calls[c].send.status = "resolved"

\* the pending requests issued while the after-connect hook of the current
\* connect action was executing
HookRequestsOutstanding ==
    {c \in PendingCalls : connectAction # 0 /\ calls[c].activeConnectHook = connectAction}

\* after the run R of a handler, invocation c has returned outcome, or holds
\* it and returns it when transport.send resolves
SettlesWith(R, c, outcome) ==
    \/ \E r \in SendReturns(R, c) : r.outcome = outcome
    \/ R.calls[c].pc = "awaitResponse" /\ R.calls[c].promise = outcome

\* C6 as stated, where no disconnect() is in progress: when the transport
\* terminates the connection while the after-connect hook is executing,
\* every outstanding request of the hook settles with an empty success if
\* the connect was automatic and with a DisconnectedError if it was not.
C6_EveryHookRequestSettlesByKind ==
    (connectAction # 0 /\ actions[connectAction].isCallingHook /\ TerminatedRuns(Cur)
         /\ disconnectAction = 0) =>
        LET R == TransportDisconnectedResult IN
        \A c \in HookRequestsOutstanding :
            IF actions[connectAction].isAutomatic
            THEN SettlesWith(R, c, Resolved(Empty))
            ELSE SettlesWith(R, c, Rejected(DisconnectedError(Host)))

\* C6, amended: when the transport terminates the connection while the
\* after-connect hook is executing, the one request that the connect
\* action's hookMessageId names, if still pending, is settled by the
\* teardown: with an empty success if the connect was automatic; if it was
\* not, with a DisconnectedError, which its sendRequest rejects with unless
\* a disconnect action is present, when it resolves empty.
C6_TaggedHookRequestSettlesByKind ==
    (connectAction # 0 /\ actions[connectAction].isCallingHook /\ TerminatedRuns(Cur)
         /\ actions[connectAction].hookMessageId \in PendingIds(Cur)) =>
        LET R == TransportDisconnectedResult
            c == CallOf(Cur, actions[connectAction].hookMessageId)
        IN  /\ c \in HookRequestsOutstanding
            /\ IF actions[connectAction].isAutomatic
               THEN SettlesWith(R, c, Resolved(Empty))
               ELSE SendReturns(R, c) =
                        {[Return("sendRequest", c,
                                 IF disconnectAction # 0 THEN Resolved(Empty)
                                 ELSE Rejected(DisconnectedError(Host)))
                             EXCEPT !.id = calls[c].id,
                                    !.hooks = <<calls[c].activeConnectHook,
                                                calls[c].activeDisconnectHook>>]}

\* the after-connect hook of an automatic connect is executing with two of
\* its requests outstanding, the later one named by hookMessageId, when the
\* transport emits 'disconnected'
C6_Witness ==
    /\ connectAction # 0
    /\ actions[connectAction].isCallingHook
    /\ actions[connectAction].isAutomatic
    /\ TerminatedRuns(Cur)
    /\ Cardinality(HookRequestsOutstanding) = 2
    /\ actions[connectAction].hookMessageId \in PendingIds(Cur)

\* ------------------------------------------------------- auto-reconnect
\* C7: with auto-reconnect enabled and no connect action, shouldAutoConnect
\* returns true on an instance that has never been disconnected, and after
\* a termination returns false while less than MinimumAutoReconnectMillis
\* (1000) has elapsed since the recorded disconnect and true from exactly
\* that interval on.
C7_ReconnectDebounce ==
    (autoReconnect /\ connectAction = 0) =>
        shouldAutoConnect(Cur) =
            (\/ lastDisconnectDate = <<>>
             \/ now - lastDisconnectDate[1] >= DefaultMinimumAutoReconnectMillis)

\* the transport has terminated the connection, auto-reconnect is enabled,
\* no connect has started, and exactly the minimum interval has elapsed
C7_Witness ==
    /\ autoReconnect
    /\ connectAction = 0
    /\ disconnectAction = 0
    /\ lastDisconnectDate # <<>>
    /\ now - lastDisconnectDate[1] = DefaultMinimumAutoReconnectMillis
    /\ shouldAutoConnect(Cur)

\* C8: disconnect() sets autoReconnect to false; from false it becomes true
\* only by a connect() call with shouldAutoReconnect true that starts an
\* attempt; and while it is false shouldAutoConnect returns false and no
\* sendRequest calls transport.connect (no automatic connect action is
\* created).
C8_DisconnectDisablesAutoConnect ==
    [][/\ Disconnect => ~autoReconnect'
       /\ (~autoReconnect /\ autoReconnect') =>
              /\ Connect("true")
              /\ connectAction' # connectAction
       /\ ~autoReconnect =>
              /\ ~shouldAutoConnect(Cur)
              /\ \A a \in ActionIds :
                     (actions[a].kind = "none" /\ actions'[a].kind = "connect")
                         => ~actions'[a].isAutomatic
              /\ (\E i \in {"user", "hook"} : SendRequest(i)) =>
                     /\ connectAction' = connectAction
                     /\ \A a \in ActionIds : actions'[a].kind = actions[a].kind]_vars

\* disconnect() has completed, the minimum interval has elapsed since its
\* teardown, and a request sent since is pending without any connect action
C8_Witness ==
    /\ ~autoReconnect
    /\ disconnectAction # 0
    /\ actions[disconnectAction].pc = "done"
    /\ connectAction = 0
    /\ lastDisconnectDate # <<>>
    /\ now - lastDisconnectDate[1] >= DefaultMinimumAutoReconnectMillis
    /\ PendingCalls # {}

\* --------------------------------------------------------- the registry
\* C9: a correlation id is settled at most once and is absent from the
\* registry afterwards: the registry holds exactly the ids of the
\* invocations whose future is unsettled, one invocation per id; and a
\* response for an id that is not pending (already answered, cancelled or
\* never issued) changes nothing and settles nothing.
C9_SettledOnceThenAbsent ==
    /\ \A c \in CallIds :
           calls[c].pc = "awaitResponse" =>
               (calls[c].id \in PendingIds(Cur) <=> calls[c].promise.status = "pending")
    /\ \A e \in pendingMessages.entries :
           Cardinality({c \in CallIds : calls[c].pc = "awaitResponse"
                                            /\ calls[c].id = e.id}) = 1
    /\ \A id \in 0..(MaxRequests + 1) :
           id \notin PendingIds(Cur) =>
               \A m \in Responses(id) : TransportResponseResult(m) = Cur

\* request 1 has been settled and is gone from the registry while request 2
\* is pending, when a further response for 1 arrives
C9_Witness ==
    /\ pendingMessages.lastId = 2
    /\ PendingIds(Cur) = {2}
    /\ \E c \in CallIds : calls[c].pc = "done"
    /\ Connected

\* ------------------------------------- MinimumAutoReconnectMillis = NaN
InitNaN == InitWith([isNaN |-> TRUE, ms |-> 0])

SpecNaN == InitNaN /\ [][Next]_vars

\* C10 as stated: with MinimumAutoReconnectMillis NaN, shouldAutoConnect
\* returns false in every reachable state.
C10_NaNNeverAutoConnects == ~shouldAutoConnect(Cur)

\* C10, amended: with MinimumAutoReconnectMillis NaN, once a disconnect has
\* been recorded shouldAutoConnect returns false in every state from then
\* on, whatever time has elapsed, and no sendRequest creates a connect
\* action; on an instance that has never been disconnected it returns true
\* while auto-reconnect is enabled and there is no connect action.
C10_NaNDisablesReconnect ==
    /\ lastDisconnectDate # <<>> =>
           /\ ~shouldAutoConnect(Cur)
           /\ SendRequestEnabled =>
                  /\ SendRequestResult.connectAction = connectAction
                  /\ UsedActions(SendRequestResult) = UsedActions(Cur)
    /\ (lastDisconnectDate = <<>> /\ autoReconnect /\ connectAction = 0) =>
           shouldAutoConnect(Cur)

\* the transport has terminated the connection, auto-reconnect is enabled,
\* there is no connect action, and the default interval has long elapsed
C10_Witness ==
    /\ MinimumAutoReconnectMillis.isNaN
    /\ lastDisconnectDate # <<>>
    /\ autoReconnect
    /\ connectAction = 0
    /\ disconnectAction = 0
    /\ now - lastDisconnectDate[1] >= DefaultMinimumAutoReconnectMillis
    /\ SendRequestEnabled

\* ------------------------------------------------- failures of sendRequest
\* what sendRequest's catch block makes of error, in the current state
CaughtOutcome(error) ==
    IF disconnectAction # 0 /\ IsCanceledPromiseError(error)
    THEN Resolved(Empty)
    ELSE Rejected(error)

\* the one thing handed to invocation c when it settles with outcome
SendReturn(c, outcome) ==
    [Return("sendRequest", c, outcome)
        EXCEPT !.id = calls[c].id,
               !.hooks = <<calls[c].activeConnectHook, calls[c].activeDisconnectHook>>]

\* the error onResponse delivers for an error response, in the current state
DeliveredError(m) ==
    IF (disconnectAction # 0 \/ m.data.name = "SessionClosedOrMissingError"
            \/ m.isDisconnecting)
           /\ m.data.name \notin {"BrowserLaunchError", "DependenciesMissingError"}
    THEN DisconnectedError(Host)
    ELSE m.data

\* C11: when transport.send of an invocation rejects, or an error response
\* rejects its pending future, the invocation's id is removed from the
\* registry and the invocation resolves to an empty result if and only if a
\* disconnect action is present and the error is a cancellation, and
\* rejects with that same error otherwise.
C11_SendRequestFailure ==
    /\ \A c \in CallIds : \A e \in SendErrors :
           SendPending(c) =>
               LET R == TransportSendRejectedResult(c, e) IN
               /\ calls[c].id \notin PendingIds(R)
               /\ SendReturns(R, c) = {SendReturn(c, CaughtOutcome(e))}
               /\ (CaughtOutcome(e) = Resolved(Empty))
                      <=> (disconnectAction # 0 /\ IsCanceledPromiseError(e))
    /\ \A id \in PendingIds(Cur) : \A m \in Responses(id) :
           m.data.kind = "error" =>
               LET R == TransportResponseResult(m)
                   c == CallOf(Cur, id)
               IN  /\ id \notin PendingIds(R)
                   /\ SendReturns(R, c) = {SendReturn(c, CaughtOutcome(DeliveredError(m)))}

\* a disconnect action is present and a request sent since it began waits
\* on both its response and transport.send, when transport.send fails
C11_Witness ==
    /\ disconnectAction # 0
    /\ \E c \in PendingCalls : SendPending(c)
    /\ \E c \in CallIds : SendPending(c) /\ calls[c].promise.status = "resolved"

\* every error response to id: each error name, flagged isDisconnecting or not
ErrorResponses(id) ==
    {[responseId |-> id, data |-> Err(n), isDisconnecting |-> b] :
         n \in RemoteErrorNames, b \in BOOLEAN}

\* C12: for an error response to a pending request, the error that
\* onResponse rejects the request's future with is DisconnectedError(host)
\* exactly when (a disconnect action is present, or the error is a
\* SessionClosedOrMissingError, or it is flagged isDisconnecting) and the
\* error is neither a BrowserLaunchError nor a DependenciesMissingError; in
\* every other case it is the error of the response.
C12_ErrorNormalisation ==
    \A id \in PendingIds(Cur) : \A m \in ErrorResponses(id) :
        LET delivered == onResponse(Cur, m).calls[CallOf(Cur, id)].promise
            masked == /\ \/ disconnectAction # 0
                         \/ m.data.name = "SessionClosedOrMissingError"
                         \/ m.isDisconnecting
                      /\ m.data.name # "BrowserLaunchError"
                      /\ m.data.name # "DependenciesMissingError"
        IN  /\ delivered.status = "rejected"
            /\ masked => delivered.value = DisconnectedError(Host)
            /\ ~masked => delivered.value = m.data
            /\ (delivered.value = DisconnectedError(Host)) <=> masked

\* a disconnect action is present and a request is pending, when a response
\* with a BrowserLaunchError arrives and is passed through
C12_Witness ==
    /\ disconnectAction # 0
    /\ \E id \in PendingIds(Cur) :
           onResponse(Cur, [responseId |-> id, data |-> Err("BrowserLaunchError"),
                            isDisconnecting |-> TRUE]).calls[CallOf(Cur, id)].promise
               = Rejected(Err("BrowserLaunchError"))

\* ------------------------------------------------------ connect attempts
\* the connect() invocations awaiting transport.connect or their call of the
\* after-connect hook
UnsettledAttempts ==
    {a \in ActionIds : actions[a].pc \in {"transportConnect", "afterConnectHook"}}

\* what the failure R of attempt a must leave, by C13
FailureClearsOwnAction(R, a, error) ==
    /\ Return("settled", a, Rejected(error)) \in R.returns
    /\ R.actions[a].pc = "done"
    /\ connectAction = a => (R.connectAction = 0 /\ ~JoinsConnect(R))
    /\ connectAction # a => R.connectAction = connectAction

\* C13: when a connect attempt fails at transport.connect or in the
\* after-connect hook, its outcome is rejected with the failure and the
\* connect action is cleared so that the next connect() starts a fresh
\* attempt; the failure clears the failing attempt's own action only, never
\* the connect action of a later connect() call.
C13_FailureClearsOnlyOwnAction ==
    \A a \in ActionIds :
        /\ actions[a].pc = "transportConnect" =>
               FailureClearsOwnAction(TransportConnectRejectedResult(a), a,
                                      Err("ConnectError"))
        /\ actions[a].pc = "afterConnectHook" =>
               FailureClearsOwnAction(AfterConnectHookThrowResult(a), a,
                                      Err("HookError"))

\* C14: a connect() call made while the before-disconnect hook is executing
\* returns undefined at once and changes nothing: no action is created (no
\* transport.connect), connectAction and disconnectAction stay, and
\* autoReconnect stays whatever shouldAutoReconnect was passed.
C14_ConnectDuringDisconnectHook ==
    (\E d \in ActionIds : actions[d].pc = "beforeDisconnectHook") =>
        \A o \in AutoReconnectOptions :
            LET R == ConnectResult(o) IN
            /\ R.returns = {Return("connect", 0, Resolved(Empty))}
            /\ [R EXCEPT !.returns = {}] = Cur

\* the before-disconnect hook is executing on an instance without a connect
\* action, when connect({shouldAutoReconnect: true}) is called
C14_Witness ==
    /\ \E d \in ActionIds : actions[d].pc = "beforeDisconnectHook"
    /\ connectAction = 0
    /\ ~autoReconnect
    /\ ConnectResult("true").autoReconnect = FALSE

\* the disconnect() invocations that have not completed
UnfinishedDisconnects == {d \in DisconnectActions : actions[d].pc # "done"}

C16_AtMostOneUnsettledAttempt ==
    Cardinality(UnsettledAttempts) <= 1

\* ------------------------------------------------------------ teardown
\* C17: since transport.connect last completed (and before it first does),
\* the teardown body has run at most once; once it has run, a further
\* 'disconnected' from the transport changes nothing (no event, no new
\* lastDisconnectDate, no after-disconnect hook), and a disconnect() that
\* gets to its call of onConnectionTerminated does not run the body again.
C17_TeardownOncePerEpisode ==
    /\ teardowns <= 1
    /\ teardowns = 1 =>
           /\ TransportDisconnectedResult = Cur
           /\ \A d \in ActionIds :
                  actions[d].pc = "beforeDisconnectHook" =>
                      LET R == BeforeDisconnectHookSettledResult(d, FALSE) IN
                      /\ R.teardowns = 1
                      /\ R.lastDisconnectDate = lastDisconnectDate
                      /\ R.actions[d].pc = "done"

\* the teardown has run, time has passed, and a disconnect() is at its
\* before-disconnect hook, about to call onConnectionTerminated
C17_Witness ==
    /\ teardowns = 1
    /\ lastDisconnectDate # <<>> /\ now > lastDisconnectDate[1]
    /\ \E d \in ActionIds : actions[d].pc = "beforeDisconnectHook"

\* ------------------------------------------------------ 'connected' event
\* connect() of attempt a resolves its action and emits 'connected' in the
\* run of a handler that ends in R
EmitsConnected(R, a) ==
    \E r \in R.returns :
        r.op = "settled" /\ r.ref = a /\ r.outcome = Resolved(Empty)

\* the instance is Connected on attempt a after the run that ends in R, and
\* the teardown body has not run since transport.connect completed
ConnectedOn(R, a) ==
    /\ R.connectAction = a
    /\ R.disconnectAction = 0
    /\ R.teardowns = 0
    /\ ~R.didCallConnectionTerminated

\* C18: whenever an attempt emits 'connected' (when its transport.connect
\* resolves and the after-connect hook is skipped, or when its after-connect
\* hook returns), the action just resolved is the stored connectAction, no
\* disconnect action is present and no teardown has run.
C18_ConnectedWhenEmitted ==
    \A a \in ActionIds :
        /\ actions[a].pc = "transportConnect" =>
               LET R == TransportConnectResolvedResult(a) IN
               EmitsConnected(R, a) => ConnectedOn(R, a)
        /\ actions[a].pc = "afterConnectHook" =>
               LET R == AfterConnectHookReturnResult(a) IN
               EmitsConnected(R, a) => ConnectedOn(R, a)

\* ------------------------------------------------- requests while connecting
\* C19: with autoReconnect set, while a connect attempt is in flight and no
\* lifecycle hook is executing, a sendRequest does not reach transport.send:
\* it waits for the attempt.
C19_NoSendWhileConnecting ==
    (autoReconnect /\ Connecting /\ ~HookBodyRunning(Cur) /\ SendRequestEnabled) =>
        SendRequestResult.calls[NextCall].pc # "awaitResponse"

\* ------------------------------------------------------------ hook tagging
\* who can call sendRequest: the running connect / disconnect hook, or
\* any other holder of the instance
Issuers == {"user", "hook"}

\* invocation c of sendRequest was created as a hook request in S
TaggedCall(S, c) ==
    S.calls[c].activeConnectHook # 0 \/ S.calls[c].activeDisconnectHook # 0

\* the message ids of the sendRequest invocations that have not settled
UnsettledIds == {calls[c].id : c \in {k \in CallIds : calls[k].pc = "awaitResponse"}}

\* every hookMessageId names a request whose sendRequest has not settled
HookMessageIdsUnsettled ==
    \A a \in ActionIds :
        actions[a].hookMessageId # 0 => actions[a].hookMessageId \in UnsettledIds

\* C20: a sendRequest is created as a hook request only when it is the
\* executing hook that issues it, a sendRequest of another caller while a
\* hook is executing is not tagged, and no hookMessageId names a request
\* whose sendRequest has settled.
C20_OnlyHookIssuedTagged ==
    /\ \A issuer \in Issuers :
           (SendRequestEnabled /\ (issuer = "hook" => HookBodyRunning(Cur))) =>
               (TaggedCall(SendRequestResult, NextCall) => issuer = "hook")
    /\ HookMessageIdsUnsettled

====
